---- MODULE Spec2Model ----
(* llm/causallm/quant.py of PaddleNLP: the QAT configuration dispatcher       *)
(* (create_qat_model), the three calibration passes (apply_shift,             *)
(* apply_smooth, apply_ptq) and the model-family lookup                       *)
(* (get_ptq_model_config), as a state machine whose callers may invoke any    *)
(* of the five functions, one at a time.                                      *)
EXTENDS Naturals, Sequences, FiniteSets, TLC

VARIABLES
    pc,          \* position of the running call; "returned" when it has ended,
                 \* "idle" between calls
    quant_args,  \* the quant_args argument of the running (or last) call
    model,       \* the model argument of create_qat_model / get_ptq_model_config
    trainer,     \* the trainer argument of the passes: [model |-> ...]
    q_config,    \* local q_config (QuantConfig) of create_qat_model / apply_ptq
    quanters,    \* locals activation / weight of create_qat_model
    engine,      \* local qat / ptq: the engine built from q_config
    transform,   \* local shift / smooth, with its sampler and search function
    trace,       \* calls made on library objects by the running (or last) call
    result       \* outcome of the last call: return value or exception

vars == <<pc, quant_args, model, trainer, q_config, quanters, engine, transform, trace, result>>

-----------------------------------------------------------------------------
(* Bounds of the model *)

\* largest shift_step / smooth_step / ptq_step a caller passes
MaxStep == 2

-----------------------------------------------------------------------------
(* Python values *)

None == [kind |-> "None"]

PyBool(b) == [t |-> "bool", b |-> b]
PyInt(n) == [t |-> "int", n |-> n]
PyStr(s) == [t |-> "str", s |-> s]
PyNone == [t |-> "NoneType"]

\* a flag tested with `is True` instead of for truth
Truthy_identity(v) == v.t = "bool" /\ v.b

\* `if quant_args.smooth_piecewise_search:` -- Python truth value testing
Truthy(v) ==
    CASE v.t = "bool" -> v.b
      [] v.t = "int" -> v.n # 0
      [] v.t = "str" -> v.s # ""
      [] OTHER -> FALSE

\* values a caller may pass for a flag that is tested for truth
FlagValues ==
    {PyBool(TRUE), PyBool(FALSE), PyInt(0), PyInt(1), PyStr(""), PyStr("off"), PyNone}

QatTypes == {"A8W8", "W4", "A8W4", "a8w8", "W8"}
ShiftSamplers == {"ema", "none", "EMA"}
SmoothSamplers == {"multi_step", "none", "multistep"}
Steps == 1..MaxStep
Dtypes == {"float16", "bfloat16"}
BasePrefixes == {"chatglm", "chatglm_v2", "bloom", "llama", "gpt", "chatglm_v3", ""}

\* the (smooth_k_piece, smooth_search_piece) pairs a caller passes
PieceArgs == {<<3, FALSE>>, <<6, TRUE>>}

\* the fields of quant_args a call does not read
NoArgs ==
    [qat_type |-> "", shift_sampler |-> "", shift_all_linears |-> FALSE, shift_step |-> 0,
     smooth_sampler |-> "", smooth_piecewise_search |-> PyNone, smooth_k_piece |-> 0,
     smooth_search_piece |-> FALSE, smooth_all_linears |-> FALSE, smooth_step |-> 0,
     ptq_step |-> 0]

-----------------------------------------------------------------------------
(* Model objects *)

\* a PretrainedModel subclass instance: base_model_prefix is its own attribute
BareModel(p) ==
    [cls |-> "PretrainedModel", base_model_prefix |-> p, layers |-> "float", quant |-> None]

\* a PrefixModelForCausalLM around a PretrainedModel: the prefix is an
\* attribute of the wrapped model (model.model)
PrefixModel(p) ==
    [cls |-> "PrefixModelForCausalLM", model |-> BareModel(p), layers |-> "float", quant |-> None]

Models == {BareModel(p) : p \in BasePrefixes} \cup {PrefixModel(p) : p \in BasePrefixes}

\* isinstance(model, PrefixModelForCausalLM)
IsPrefixModel(m) == m.cls = "PrefixModelForCausalLM"

\* PrefixModelForCausalLM.__getattr__(name): an attribute the wrapper does not
\* define itself is looked up on the wrapped model
PrefixModel_getattr(m, name) ==
    IF name \in DOMAIN m.model
    THEN [found |-> TRUE, value |-> m.model[name]]
    ELSE [found |-> FALSE]

\* model.base_model_prefix as evaluated for the message of the ValueError
GetBaseModelPrefix(m) ==
    IF "base_model_prefix" \in DOMAIN m
    THEN [found |-> TRUE, value |-> m.base_model_prefix]
    ELSE PrefixModel_getattr(m, "base_model_prefix")

\* trainer.model: which layers it holds, the hooks attached to it, and the
\* transforms whose weights have been committed to it
TrainerModel0 ==
    [layers |-> "float", hooks |-> {}, shifted |-> FALSE, smoothed |-> FALSE,
     calibrated |-> FALSE]

-----------------------------------------------------------------------------
(* Outcomes and library calls *)

Return(fn, v) == [fn |-> fn, kind |-> "return", value |-> v]
Raise(fn, e, msg) == [fn |-> fn, kind |-> "raise", exc |-> e, msg |-> msg]
NoResult == [fn |-> "", kind |-> "none"]

Call(op, arg) == [op |-> op, arg |-> arg]

\* the locals of a call that is not running
NoLocals ==
    /\ q_config' = None
    /\ quanters' = None
    /\ engine' = None
    /\ transform' = None

-----------------------------------------------------------------------------
(* get_ptq_model_config *)

\* the flags of bloom and llama exchanged
get_ptq_model_config_swapped(m) ==
    LET base_model_prefix ==
            IF IsPrefixModel(m) THEN m.model.base_model_prefix ELSE m.base_model_prefix
    IN  IF base_model_prefix \in {"chatglm"}
        THEN Raise("get_ptq_model_config", "NotImplementedError", "does not support Shift or Smooth")
        ELSE IF base_model_prefix = "chatglm_v2"
        THEN Return("get_ptq_model_config", [fused_qkv |-> FALSE, parallel_ffn |-> FALSE])
        ELSE IF base_model_prefix = "bloom"
        THEN Return("get_ptq_model_config", [fused_qkv |-> FALSE, parallel_ffn |-> TRUE])
        ELSE IF base_model_prefix = "llama"
        THEN Return("get_ptq_model_config", [fused_qkv |-> TRUE, parallel_ffn |-> FALSE])
        ELSE IF GetBaseModelPrefix(m).found
        THEN Raise("get_ptq_model_config", "ValueError", GetBaseModelPrefix(m).value)
        ELSE Raise("get_ptq_model_config", "AttributeError", "base_model_prefix")

\* the chatglm test matching every prefix of the chatglm family
get_ptq_model_config_family(m) ==
    LET base_model_prefix ==
            IF IsPrefixModel(m) THEN m.model.base_model_prefix ELSE m.base_model_prefix
    IN  IF base_model_prefix \in {"chatglm", "chatglm_v2", "chatglm_v3"}
        THEN Raise("get_ptq_model_config", "NotImplementedError", "does not support Shift or Smooth")
        ELSE IF base_model_prefix = "bloom"
        THEN Return("get_ptq_model_config", [fused_qkv |-> TRUE, parallel_ffn |-> FALSE])
        ELSE IF base_model_prefix = "llama"
        THEN Return("get_ptq_model_config", [fused_qkv |-> FALSE, parallel_ffn |-> TRUE])
        ELSE IF GetBaseModelPrefix(m).found
        THEN Raise("get_ptq_model_config", "ValueError", GetBaseModelPrefix(m).value)
        ELSE Raise("get_ptq_model_config", "AttributeError", "base_model_prefix")

\* the final else returning a default record instead of raising
get_ptq_model_config_default(m) ==
    LET base_model_prefix ==
            IF IsPrefixModel(m) THEN m.model.base_model_prefix ELSE m.base_model_prefix
    IN  IF base_model_prefix \in {"chatglm"}
        THEN Raise("get_ptq_model_config", "NotImplementedError", "does not support Shift or Smooth")
        ELSE IF base_model_prefix = "chatglm_v2"
        THEN Return("get_ptq_model_config", [fused_qkv |-> FALSE, parallel_ffn |-> FALSE])
        ELSE IF base_model_prefix = "bloom"
        THEN Return("get_ptq_model_config", [fused_qkv |-> TRUE, parallel_ffn |-> FALSE])
        ELSE IF base_model_prefix = "llama"
        THEN Return("get_ptq_model_config", [fused_qkv |-> FALSE, parallel_ffn |-> TRUE])
        ELSE Return("get_ptq_model_config", [fused_qkv |-> FALSE, parallel_ffn |-> FALSE])

get_ptq_model_config(m) ==
    LET base_model_prefix ==
            IF IsPrefixModel(m) THEN m.model.base_model_prefix ELSE m.base_model_prefix
    IN  IF base_model_prefix \in {"chatglm"}
        THEN Raise("get_ptq_model_config", "NotImplementedError", "does not support Shift or Smooth")
        ELSE IF base_model_prefix = "chatglm_v2"
        THEN Return("get_ptq_model_config", [fused_qkv |-> FALSE, parallel_ffn |-> FALSE])
        ELSE IF base_model_prefix = "bloom"
        THEN Return("get_ptq_model_config", [fused_qkv |-> TRUE, parallel_ffn |-> FALSE])
        ELSE IF base_model_prefix = "llama"
        THEN Return("get_ptq_model_config", [fused_qkv |-> FALSE, parallel_ffn |-> TRUE])
        ELSE IF GetBaseModelPrefix(m).found
        THEN Raise("get_ptq_model_config", "ValueError", GetBaseModelPrefix(m).value)
        ELSE Raise("get_ptq_model_config", "AttributeError", "base_model_prefix")

\* a caller looks up the configuration of some model
GetPtqModelConfig ==
    /\ pc = "idle"
    /\ \E m \in Models :
        /\ model' = m
        /\ result' = get_ptq_model_config(m)
    /\ quant_args' = NoArgs
    /\ trace' = <<>>
    /\ NoLocals
    /\ pc' = "returned"
    /\ UNCHANGED trainer

-----------------------------------------------------------------------------
(* create_qat_model *)

PACTQuanter(dtype) ==
    [kind |-> "PACTQuanter", quanter |-> "FakeQuanterWithAbsMaxObserverLayer",
     init_value |-> 20, dtype |-> dtype]

FakeQuanterChannelWiseAbsMaxObserver(bit_length) ==
    [kind |-> "FakeQuanterChannelWiseAbsMaxObserver", bit_length |-> bit_length,
     dtype |-> "float32"]

\* QuantConfig(activation=None, weight=None)
QuantConfig == [activation |-> None, weight |-> None, layer_mapping |-> {}, type_config |-> {}]

add_qat_layer_mapping(cfg, source, target) ==
    [cfg EXCEPT !.layer_mapping = @ \cup {<<source, target>>}]

\* add_type_config takes one layer type or a list of them
add_type_config(cfg, layer_types, w, a) ==
    [cfg EXCEPT !.type_config =
        {c \in @ : c.layer \notin layer_types}
            \cup {[layer |-> l, weight |-> w, activation |-> a] : l \in layer_types}]

\* the W4 branch keeping the activation quantizer of the branch above
QatQuanters_w4_pact(qat_type, dtype) ==
    IF qat_type = "A8W8"
    THEN [activation |-> PACTQuanter(dtype), weight |-> FakeQuanterChannelWiseAbsMaxObserver(8)]
    ELSE IF qat_type = "W4"
    THEN [activation |-> PACTQuanter(dtype), weight |-> FakeQuanterChannelWiseAbsMaxObserver(4)]
    ELSE IF qat_type = "A8W4"
    THEN [activation |-> PACTQuanter(dtype), weight |-> FakeQuanterChannelWiseAbsMaxObserver(4)]
    ELSE None

\* the chain ending in a plain else: every other qat_type taken as A8W4
QatQuanters_no_else(qat_type, dtype) ==
    IF qat_type = "A8W8"
    THEN [activation |-> PACTQuanter(dtype), weight |-> FakeQuanterChannelWiseAbsMaxObserver(8)]
    ELSE IF qat_type = "W4"
    THEN [activation |-> None, weight |-> FakeQuanterChannelWiseAbsMaxObserver(4)]
    ELSE [activation |-> PACTQuanter(dtype), weight |-> FakeQuanterChannelWiseAbsMaxObserver(4)]

\* the if/elif chain on quant_args.qat_type; None when no branch matches
QatQuanters(qat_type, dtype) ==
    IF qat_type = "A8W8"
    THEN [activation |-> PACTQuanter(dtype), weight |-> FakeQuanterChannelWiseAbsMaxObserver(8)]
    ELSE IF qat_type = "W4"
    THEN [activation |-> None, weight |-> FakeQuanterChannelWiseAbsMaxObserver(4)]
    ELSE IF qat_type = "A8W4"
    THEN [activation |-> PACTQuanter(dtype), weight |-> FakeQuanterChannelWiseAbsMaxObserver(4)]
    ELSE None

\* entry, q_config = QuantConfig(...), add_qat_layer_mapping
create_qat_model_config ==
    /\ pc = "idle"
    /\ \E t \in QatTypes, d \in Dtypes, m \in {BareModel("llama"), PrefixModel("bloom")} :
        /\ quant_args' = [NoArgs EXCEPT !.qat_type = t]
        /\ model' = m
        /\ quanters' = [dtype |-> d]
    /\ q_config' = add_qat_layer_mapping(QuantConfig, "LoRALinear", "QuantedLoRALinear")
    /\ engine' = None
    /\ transform' = None
    /\ trace' = <<>>
    /\ result' = NoResult
    /\ pc' = "qat_select"
    /\ UNCHANGED trainer

\* the if/elif chain: a valid qat_type binds activation and weight
create_qat_model_select ==
    /\ pc = "qat_select"
    /\ QatQuanters(quant_args.qat_type, quanters.dtype) # None
    /\ quanters' = QatQuanters(quant_args.qat_type, quanters.dtype)
    /\ pc' = "qat_type_config"
    /\ UNCHANGED <<quant_args, model, trainer, q_config, engine, transform, trace, result>>

\* the else branch: raise ValueError
create_qat_model_raise ==
    /\ pc = "qat_select"
    /\ QatQuanters(quant_args.qat_type, quanters.dtype) = None
    /\ result' = Raise("create_qat_model", "ValueError",
                       "qat_type should be one of ['A8W8', 'W4', 'A8W4']")
    /\ NoLocals
    /\ pc' = "returned"
    /\ UNCHANGED <<quant_args, model, trainer, trace>>

\* only the LoRALinear type config registered
create_qat_model_type_config_lora_only ==
    /\ pc = "qat_type_config"
    /\ q_config' =
        add_type_config(q_config, {"LoRALinear"}, quanters.weight, quanters.activation)
    /\ pc' = "qat_engine"
    /\ UNCHANGED <<quant_args, model, trainer, quanters, engine, transform, trace, result>>

\* the two add_type_config calls
create_qat_model_type_config ==
    /\ pc = "qat_type_config"
    /\ q_config' =
        add_type_config(
            add_type_config(q_config, {"LoRALinear"}, quanters.weight, quanters.activation),
            {"nn.Linear"}, quanters.weight, quanters.activation)
    /\ pc' = "qat_engine"
    /\ UNCHANGED <<quant_args, model, trainer, quanters, engine, transform, trace, result>>

\* qat = QAT(q_config)
create_qat_model_engine ==
    /\ pc = "qat_engine"
    /\ engine' = [kind |-> "QAT", config |-> q_config]
    /\ pc' = "qat_quantize"
    /\ UNCHANGED <<quant_args, model, trainer, q_config, quanters, transform, trace, result>>

\* model = qat.quantize(model, inplace=True); return model
create_qat_model_quantize ==
    /\ pc = "qat_quantize"
    /\ model' = [model EXCEPT !.layers = "qat", !.quant = engine.config]
    /\ trace' = Append(trace, Call("QAT.quantize", engine.config))
    /\ result' = Return("create_qat_model", model')
    /\ NoLocals
    /\ pc' = "returned"
    /\ UNCHANGED <<quant_args, trainer>>


-----------------------------------------------------------------------------
(* The calibration loop and the library transforms *)

PtqModelConfigs ==
    {[fused_qkv |-> FALSE, parallel_ffn |-> FALSE],
     [fused_qkv |-> TRUE, parallel_ffn |-> FALSE],
     [fused_qkv |-> FALSE, parallel_ffn |-> TRUE]}

\* trainer.ptq_loop(ptq_dataloader, description=..., max_eval_iters=...), as
\* the call this module makes
ptq_loop(description, max_eval_iters) ==
    Call("ptq_loop", [description |-> description, max_eval_iters |-> max_eval_iters])

\* forward passes over trainer.model: inserted observers calibrate
Calibrated(m) ==
    [m EXCEPT !.calibrated = @ \/ m.layers = "observed"]

\* Shift(...) / Smooth(...) is built on trainer.model
Attached(m, kind) == [m EXCEPT !.hooks = @ \cup {kind}]

\* shift.update_weight() / smooth.update_weight()
update_weight(m, kind) ==
    [m EXCEPT !.hooks = @ \ {kind},
              !.shifted = @ \/ kind = "Shift",
              !.smoothed = @ \/ kind = "Smooth"]

-----------------------------------------------------------------------------
(* apply_shift *)

\* EMASampler() if quant_args.shift_sampler == "ema" else None
ShiftSampler(args) ==
    IF args.shift_sampler = "ema" THEN [kind |-> "EMASampler"] ELSE None

\* shift = Shift(model=trainer.model, model_config=..., sample_function=...,
\*               shift_all_linears=...)
Shift(args, ptq_model_config) ==
    [kind |-> "Shift", model_config |-> ptq_model_config,
     sample_function |-> ShiftSampler(args),
     shift_all_linears |-> args.shift_all_linears]

\* entry, the sampler and the Shift transform
apply_shift_begin ==
    /\ pc = "idle"
    /\ \E s \in ShiftSamplers, a \in BOOLEAN, n \in Steps, c \in PtqModelConfigs :
        LET args == [NoArgs EXCEPT !.shift_sampler = s, !.shift_all_linears = a,
                                   !.shift_step = n]
        IN  /\ quant_args' = args
            /\ transform' = Shift(args, c)
            /\ trace' = <<Call("Shift", Shift(args, c))>>
    /\ trainer' = [trainer EXCEPT !.model = Attached(@, "Shift")]
    /\ q_config' = None
    /\ quanters' = None
    /\ engine' = None
    /\ result' = NoResult
    /\ pc' = "shift_loop"
    /\ UNCHANGED model

\* trainer.ptq_loop(..., description="Shift", max_eval_iters=shift_step) returns
apply_shift_loop ==
    /\ pc = "shift_loop"
    /\ trace' = Append(trace, ptq_loop("Shift", quant_args.shift_step))
    /\ trainer' = [trainer EXCEPT !.model = Calibrated(@)]
    /\ pc' = "shift_update"
    /\ UNCHANGED <<quant_args, model, q_config, quanters, engine, transform, result>>

\* trainer.ptq_loop raises: the exception leaves apply_shift
apply_shift_loop_raise ==
    /\ pc = "shift_loop"
    /\ trace' = Append(trace, ptq_loop("Shift", quant_args.shift_step))
    /\ result' = Raise("apply_shift", "Exception", "ptq_loop")
    /\ NoLocals
    /\ pc' = "returned"
    /\ UNCHANGED <<quant_args, model, trainer>>

\* shift.update_weight(); del shift, shift_sampler
apply_shift_update ==
    /\ pc = "shift_update"
    /\ trace' = Append(trace, Call("update_weight", transform.kind))
    /\ trainer' = [trainer EXCEPT !.model = update_weight(@, transform.kind)]
    /\ result' = Return("apply_shift", None)
    /\ NoLocals
    /\ pc' = "returned"
    /\ UNCHANGED <<quant_args, model>>

-----------------------------------------------------------------------------
(* apply_smooth *)

\* MultiStepSampler() if quant_args.smooth_sampler == "multi_step" else None
SmoothSampler(args) ==
    IF args.smooth_sampler = "multi_step" THEN [kind |-> "MultiStepSampler"] ELSE None

\* PieceWiseSearch(...) if quant_args.smooth_piecewise_search else None
SearchFunc(args) ==
    IF Truthy(args.smooth_piecewise_search)
    THEN [kind |-> "PieceWiseSearch", k_piece |-> args.smooth_k_piece, bits_length |-> 8,
          search_piece |-> args.smooth_search_piece,
          weight_quant_method |-> "abs_max_channel_wise", act_quant_method |-> "abs_max"]
    ELSE None

\* smooth = Smooth(trainer.model, ptq_model_config, alpha=0.5, ...)
Smooth(args, ptq_model_config) ==
    [kind |-> "Smooth", model_config |-> ptq_model_config,
     smooth_all_linears |-> args.smooth_all_linears,
     sample_function |-> SmoothSampler(args),
     search_function |-> SearchFunc(args)]

\* entry, the sampler, the search function and the Smooth transform
apply_smooth_begin ==
    /\ pc = "idle"
    /\ \E s \in SmoothSamplers, f \in FlagValues, k \in PieceArgs, a \in BOOLEAN,
          n \in Steps, c \in PtqModelConfigs :
        LET args == [NoArgs EXCEPT !.smooth_sampler = s, !.smooth_piecewise_search = f,
                                   !.smooth_k_piece = k[1], !.smooth_search_piece = k[2],
                                   !.smooth_all_linears = a, !.smooth_step = n]
        IN  /\ quant_args' = args
            /\ transform' = Smooth(args, c)
            /\ trace' = <<Call("Smooth", Smooth(args, c))>>
    /\ trainer' = [trainer EXCEPT !.model = Attached(@, "Smooth")]
    /\ q_config' = None
    /\ quanters' = None
    /\ engine' = None
    /\ result' = NoResult
    /\ pc' = "smooth_loop"
    /\ UNCHANGED model

\* the loop bounded by shift_step instead of smooth_step
apply_smooth_loop_shift_step ==
    /\ pc = "smooth_loop"
    /\ trace' = Append(trace, ptq_loop("Smooth", quant_args.shift_step))
    /\ trainer' = [trainer EXCEPT !.model = Calibrated(@)]
    /\ pc' = "smooth_update"
    /\ UNCHANGED <<quant_args, model, q_config, quanters, engine, transform, result>>

\* trainer.ptq_loop(..., description="Smooth", max_eval_iters=smooth_step) returns
apply_smooth_loop ==
    /\ pc = "smooth_loop"
    /\ trace' = Append(trace, ptq_loop("Smooth", quant_args.smooth_step))
    /\ trainer' = [trainer EXCEPT !.model = Calibrated(@)]
    /\ pc' = "smooth_update"
    /\ UNCHANGED <<quant_args, model, q_config, quanters, engine, transform, result>>

\* trainer.ptq_loop raises: the exception leaves apply_smooth
apply_smooth_loop_raise ==
    /\ pc = "smooth_loop"
    /\ trace' = Append(trace, ptq_loop("Smooth", quant_args.smooth_step))
    /\ result' = Raise("apply_smooth", "Exception", "ptq_loop")
    /\ NoLocals
    /\ pc' = "returned"
    /\ UNCHANGED <<quant_args, model, trainer>>

\* returning after the loop without smooth.update_weight()
apply_smooth_update_skipped ==
    /\ pc = "smooth_update"
    /\ result' = Return("apply_smooth", None)
    /\ NoLocals
    /\ pc' = "returned"
    /\ UNCHANGED <<quant_args, model, trainer, trace>>

\* smooth.update_weight(); del smooth, smooth_sampler, search_func
apply_smooth_update ==
    /\ pc = "smooth_update"
    /\ trace' = Append(trace, Call("update_weight", transform.kind))
    /\ trainer' = [trainer EXCEPT !.model = update_weight(@, transform.kind)]
    /\ result' = Return("apply_smooth", None)
    /\ NoLocals
    /\ pc' = "returned"
    /\ UNCHANGED <<quant_args, model>>

-----------------------------------------------------------------------------
(* apply_ptq *)

AbsmaxObserver == [kind |-> "AbsmaxObserver"]
AbsMaxChannelWiseWeightObserver == [kind |-> "AbsMaxChannelWiseWeightObserver"]

PtqLayerTypes == {"nn.Linear", "ColumnParallelLinear", "RowParallelLinear", "QuantedLoRALinear"}

\* ptq.quantize(trainer.model, inplace=True): observers are inserted
PTQ_quantize(m) ==
    [m EXCEPT !.layers = "observed", !.calibrated = FALSE]

\* ptq.convert(trainer.model, inplace=True): observers become quantizers
PTQ_convert(m) == [m EXCEPT !.layers = "converted"]

\* entry, q_config, the observers, both layer mappings and the type config
apply_ptq_config ==
    /\ pc = "idle"
    /\ \E n \in Steps : quant_args' = [NoArgs EXCEPT !.ptq_step = n]
    /\ quanters' = [activation |-> AbsmaxObserver, weight |-> AbsMaxChannelWiseWeightObserver]
    /\ q_config' =
        add_type_config(
            add_qat_layer_mapping(
                add_qat_layer_mapping(QuantConfig, "ColumnParallelLinear",
                                      "QuantizedColumnParallelLinear"),
                "RowParallelLinear", "QuantizedRowParallelLinear"),
            PtqLayerTypes, AbsMaxChannelWiseWeightObserver, AbsmaxObserver)
    /\ engine' = None
    /\ transform' = None
    /\ trace' = <<>>
    /\ result' = NoResult
    /\ pc' = "ptq_engine"
    /\ UNCHANGED <<model, trainer>>

\* ptq = PTQ(q_config)
apply_ptq_engine ==
    /\ pc = "ptq_engine"
    /\ engine' = [kind |-> "PTQ", config |-> q_config]
    /\ pc' = "ptq_quantize"
    /\ UNCHANGED <<quant_args, model, trainer, q_config, quanters, transform, trace, result>>

\* ptq.quantize(trainer.model, inplace=False) with its result dropped
apply_ptq_quantize_dropped ==
    /\ pc = "ptq_quantize"
    /\ trace' = Append(trace, Call("PTQ.quantize", engine.config))
    /\ pc' = "ptq_loop"
    /\ UNCHANGED <<quant_args, model, trainer, q_config, quanters, engine, transform, result>>

\* trainer.model = ptq.quantize(trainer.model, inplace=True)
apply_ptq_quantize ==
    /\ pc = "ptq_quantize"
    /\ trainer' = [trainer EXCEPT !.model = PTQ_quantize(@)]
    /\ trace' = Append(trace, Call("PTQ.quantize", engine.config))
    /\ pc' = "ptq_loop"
    /\ UNCHANGED <<quant_args, model, q_config, quanters, engine, transform, result>>

\* trainer.ptq_loop(..., description="PTQ", max_eval_iters=ptq_step) returns
apply_ptq_loop ==
    /\ pc = "ptq_loop"
    /\ trace' = Append(trace, ptq_loop("PTQ", quant_args.ptq_step))
    /\ trainer' = [trainer EXCEPT !.model = Calibrated(@)]
    /\ pc' = "ptq_convert"
    /\ UNCHANGED <<quant_args, model, q_config, quanters, engine, transform, result>>

\* trainer.ptq_loop raises: the exception leaves apply_ptq
apply_ptq_loop_raise ==
    /\ pc = "ptq_loop"
    /\ trace' = Append(trace, ptq_loop("PTQ", quant_args.ptq_step))
    /\ result' = Raise("apply_ptq", "Exception", "ptq_loop")
    /\ NoLocals
    /\ pc' = "returned"
    /\ UNCHANGED <<quant_args, model, trainer>>

\* trainer.model = ptq.convert(trainer.model, inplace=True)
apply_ptq_convert ==
    /\ pc = "ptq_convert"
    /\ trace' = Append(trace, Call("PTQ.convert", trainer.model))
    /\ trainer' = [trainer EXCEPT !.model = PTQ_convert(@)]
    /\ result' = Return("apply_ptq", None)
    /\ NoLocals
    /\ pc' = "returned"
    /\ UNCHANGED <<quant_args, model>>
-----------------------------------------------------------------------------

\* control is back in the caller: the arguments and the outcome of the call
\* are the caller's, and the next call starts afresh
ReturnToCaller ==
    /\ pc = "returned"
    /\ pc' = "idle"
    /\ quant_args' = NoArgs
    /\ model' = BareModel("llama")
    /\ trace' = <<>>
    /\ result' = NoResult
    /\ UNCHANGED <<trainer, q_config, quanters, engine, transform>>

Init ==
    /\ pc = "idle"
    /\ quant_args = NoArgs
    /\ model = BareModel("llama")
    /\ trainer = [model |-> TrainerModel0]
    /\ q_config = None
    /\ quanters = None
    /\ engine = None
    /\ transform = None
    /\ trace = <<>>
    /\ result = NoResult

Next ==
    \/ GetPtqModelConfig
    \/ create_qat_model_config
    \/ create_qat_model_select
    \/ create_qat_model_raise
    \/ create_qat_model_type_config
    \/ create_qat_model_engine
    \/ create_qat_model_quantize
    \/ apply_shift_begin
    \/ apply_shift_loop
    \/ apply_shift_loop_raise
    \/ apply_shift_update
    \/ apply_smooth_begin
    \/ apply_smooth_loop
    \/ apply_smooth_loop_raise
    \/ apply_smooth_update
    \/ apply_ptq_config
    \/ apply_ptq_engine
    \/ apply_ptq_quantize
    \/ apply_ptq_loop
    \/ apply_ptq_loop_raise
    \/ apply_ptq_convert
    \/ ReturnToCaller

Spec == Init /\ [][Next]_vars

-----------------------------------------------------------------------------
(* Properties *)

\* the prefix get_ptq_model_config dispatches on
PrefixOf(m) ==
    IF m.cls = "PrefixModelForCausalLM" THEN m.model.base_model_prefix ELSE m.base_model_prefix

Ended(fn) == pc = "returned" /\ result.fn = fn
Returned(fn) == Ended(fn) /\ result.kind = "return"
Raised(fn) == Ended(fn) /\ result.kind = "raise"

\* the positions in trace of the calls of op
CallsOf(op) == {i \in 1..Len(trace) : trace[i].op = op}

\* the type configs cfg registers for a layer type
TypeConfigs(cfg, layer) == {c \in cfg.type_config : c.layer = layer}

\* cfg gives the layer type exactly the documented pairing of qat_type
Pairing(cfg, layer, qat_type) ==
    /\ Cardinality(TypeConfigs(cfg, layer)) = 1
    /\ \A c \in TypeConfigs(cfg, layer) :
        /\ c.weight.kind = "FakeQuanterChannelWiseAbsMaxObserver"
        /\ c.weight.bit_length = (IF qat_type = "A8W8" THEN 8 ELSE 4)
        /\ c.activation.kind = (IF qat_type = "W4" THEN "None" ELSE "PACTQuanter")

ValidQatType(t) == t \in {"A8W8", "W4", "A8W4"}

\* C1: for each valid qat_type, create_qat_model returns normally, and the
\* config the model is quantized with (and q_config from the moment the engine
\* is built) gives LoRALinear and nn.Linear the documented pairing: A8W8 ->
\* PACT activation and 8-bit channel-wise weight, W4 -> no activation and
\* 4-bit weight, A8W4 -> PACT activation and 4-bit weight.
C1_Pairing ==
    /\ (pc \in {"qat_engine", "qat_quantize"}) =>
        /\ ValidQatType(quant_args.qat_type)
        /\ Pairing(q_config, "LoRALinear", quant_args.qat_type)
        /\ Pairing(q_config, "nn.Linear", quant_args.qat_type)
    /\ (Ended("create_qat_model") /\ ValidQatType(quant_args.qat_type)) =>
        /\ result.kind = "return"
        /\ CallsOf("QAT.quantize") = {1}
        /\ Pairing(trace[1].arg, "LoRALinear", quant_args.qat_type)
        /\ Pairing(trace[1].arg, "nn.Linear", quant_args.qat_type)
        /\ result.value.quant = trace[1].arg

C1_Witness ==
    /\ Returned("create_qat_model")
    /\ quant_args.qat_type = "W4"
    /\ \E c \in result.value.quant.type_config : c.layer = "nn.Linear" /\ c.activation = None

\* C2: for every qat_type other than A8W8, W4 and A8W4, create_qat_model
\* raises ValueError, never reaches the type config, the engine or
\* QAT.quantize, and leaves the model it was given unquantized.
C2_InvalidRaises ==
    /\ (pc \in {"qat_type_config", "qat_engine", "qat_quantize"}) =>
        ValidQatType(quant_args.qat_type)
    /\ (Ended("create_qat_model") /\ ~ValidQatType(quant_args.qat_type)) =>
        /\ result.kind = "raise"
        /\ result.exc = "ValueError"
        /\ CallsOf("QAT.quantize") = {}
        /\ model.layers = "float"
        /\ model.quant = None

C2_Witness ==
    /\ Raised("create_qat_model")
    /\ quant_args.qat_type = "a8w8"
    /\ model.layers = "float"

\* C3: for base_model_prefix chatglm_v2, bloom and llama, get_ptq_model_config
\* returns exactly the documented flags, for a bare model and for a
\* PrefixModelForCausalLM wrapper (by the prefix of the wrapped model).
C3_Flags ==
    Ended("get_ptq_model_config") =>
        /\ PrefixOf(model) = "chatglm_v2" =>
            result = Return("get_ptq_model_config", [fused_qkv |-> FALSE, parallel_ffn |-> FALSE])
        /\ PrefixOf(model) = "bloom" =>
            result = Return("get_ptq_model_config", [fused_qkv |-> TRUE, parallel_ffn |-> FALSE])
        /\ PrefixOf(model) = "llama" =>
            result = Return("get_ptq_model_config", [fused_qkv |-> FALSE, parallel_ffn |-> TRUE])

C3_Witness ==
    /\ Returned("get_ptq_model_config")
    /\ model.cls = "PrefixModelForCausalLM"
    /\ PrefixOf(model) = "bloom"
    /\ result.value.fused_qkv

\* C4: base_model_prefix "chatglm" ends in NotImplementedError and no config
\* record, bare or wrapped; "chatglm_v2" never ends in NotImplementedError.
C4_ChatglmNotImplemented ==
    Ended("get_ptq_model_config") =>
        /\ PrefixOf(model) = "chatglm" =>
            /\ result.kind = "raise"
            /\ result.exc = "NotImplementedError"
        /\ PrefixOf(model) = "chatglm_v2" => result.kind = "return"

C4_Witness ==
    /\ Raised("get_ptq_model_config")
    /\ model.cls = "PrefixModelForCausalLM"
    /\ PrefixOf(model) = "chatglm"

ShiftPcs == {"shift_loop", "shift_update"}
SmoothPcs == {"smooth_loop", "smooth_update"}
PtqPcs == {"ptq_engine", "ptq_quantize", "ptq_loop", "ptq_convert"}

\* C6 as stated: apply_smooth never runs before apply_shift has committed its
\* weights, and apply_ptq never runs before apply_smooth has committed its.
C6_FixedOrder ==
    /\ pc \in SmoothPcs => trainer.model.shifted
    /\ pc \in PtqPcs => trainer.model.smoothed

\* C6 as amended: every pass commits before it returns normally -- apply_shift
\* leaves the shift committed, apply_smooth the smoothing committed, apply_ptq
\* the model converted, and no transform of a returned pass stays attached --
\* so passes called in the order Shift, Smooth, PTQ commit in that order.
C6_CommitBeforeReturn ==
    /\ Returned("apply_shift") =>
        trainer.model.shifted /\ "Shift" \notin trainer.model.hooks
    /\ Returned("apply_smooth") =>
        trainer.model.smoothed /\ "Smooth" \notin trainer.model.hooks
    /\ Returned("apply_ptq") => trainer.model.layers = "converted"

C6_Witness ==
    /\ Returned("apply_ptq")
    /\ trainer.model.shifted
    /\ trainer.model.smoothed
    /\ trainer.model.layers = "converted"

\* the step apply_shift / apply_smooth is configured with
StepOf(kind) == IF kind = "Shift" THEN quant_args.shift_step ELSE quant_args.smooth_step

\* C7 for one of the two transforms
C7_For(fn, kind, loopPc, updatePc) ==
    /\ pc = loopPc =>
        /\ CallsOf(kind) = {1}
        /\ kind \in trainer.model.hooks
        /\ CallsOf("ptq_loop") = {}
        /\ CallsOf("update_weight") = {}
    /\ (pc = updatePc \/ Ended(fn)) =>
        /\ CallsOf(kind) = {1}
        /\ CallsOf("ptq_loop") = {2}
        /\ trace[2].arg = [description |-> kind, max_eval_iters |-> StepOf(kind)]
    /\ pc = updatePc => CallsOf("update_weight") = {}
    /\ Returned(fn) =>
        /\ CallsOf("update_weight") = {3}
        /\ trace[3].arg = kind
    /\ Raised(fn) => CallsOf("update_weight") = {}
    /\ Ended(fn) => result.kind \in {"return", "raise"}

\* C7: in apply_shift and apply_smooth the transform is attached to
\* trainer.model before the loop starts, ptq_loop is called exactly once, with
\* max_eval_iters the configured step, update_weight is called exactly once
\* and only after the loop has returned, and never when the loop raises.
C7_LoopThenUpdate ==
    /\ C7_For("apply_shift", "Shift", "shift_loop", "shift_update")
    /\ C7_For("apply_smooth", "Smooth", "smooth_loop", "smooth_update")

C7_Witness ==
    /\ Returned("apply_smooth")
    /\ quant_args.smooth_step = MaxStep
    /\ Len(trace) = 3
    /\ trace[3].op = "update_weight"

\* C8: in apply_ptq trainer.model holds the observers before ptq_loop runs,
\* ptq_loop runs exactly once with max_eval_iters = ptq_step, convert is
\* applied only after the loop has returned, to the quantized and calibrated
\* model, and on normal return trainer.model is the converted model.
C8_QuantizeLoopConvert ==
    /\ pc \in {"ptq_engine", "ptq_quantize"} => trace = <<>>
    /\ pc = "ptq_loop" =>
        /\ CallsOf("PTQ.quantize") = {1}
        /\ trainer.model.layers = "observed"
        /\ CallsOf("ptq_loop") = {}
        /\ CallsOf("PTQ.convert") = {}
    /\ (pc = "ptq_convert" \/ Ended("apply_ptq")) =>
        /\ CallsOf("PTQ.quantize") = {1}
        /\ CallsOf("ptq_loop") = {2}
        /\ trace[2].arg = [description |-> "PTQ", max_eval_iters |-> quant_args.ptq_step]
    /\ pc = "ptq_convert" =>
        /\ CallsOf("PTQ.convert") = {}
        /\ trainer.model.layers = "observed"
        /\ trainer.model.calibrated
    /\ Returned("apply_ptq") =>
        /\ CallsOf("PTQ.convert") = {3}
        /\ trace[3].arg.layers = "observed"
        /\ trace[3].arg.calibrated
        /\ trainer.model.layers = "converted"
    /\ Raised("apply_ptq") =>
        /\ CallsOf("PTQ.convert") = {}
        /\ trainer.model.layers = "observed"

C8_Witness ==
    /\ Returned("apply_ptq")
    /\ quant_args.ptq_step = MaxStep
    /\ trainer.model.layers = "converted"
    /\ Len(trace) = 3

\* the config create_qat_model hands to QAT
QatPopulated(cfg) ==
    /\ <<"LoRALinear", "QuantedLoRALinear">> \in cfg.layer_mapping
    /\ \A l \in {"LoRALinear", "nn.Linear"} : TypeConfigs(cfg, l) # {}

\* the config apply_ptq hands to PTQ
PtqPopulated(cfg) ==
    /\ <<"ColumnParallelLinear", "QuantizedColumnParallelLinear">> \in cfg.layer_mapping
    /\ <<"RowParallelLinear", "QuantizedRowParallelLinear">> \in cfg.layer_mapping
    /\ \A l \in {"nn.Linear", "ColumnParallelLinear", "RowParallelLinear", "QuantedLoRALinear"} :
        \E c \in TypeConfigs(cfg, l) :
            /\ c.activation.kind = "AbsmaxObserver"
            /\ c.weight.kind = "AbsMaxChannelWiseWeightObserver"

\* C9: the config is fully populated when the engine is built and when
\* quantize and convert are called -- the LoRALinear mapping and both type
\* configs in create_qat_model, both parallel-linear mappings and the type
\* config of all four layer types in apply_ptq -- and q_config is still the
\* config the engine was built from for as long as the engine exists.
C9_ConfigPopulated ==
    /\ engine # None => engine.config = q_config
    /\ (pc = "qat_quantize" \/ (engine # None /\ engine.kind = "QAT")) =>
        QatPopulated(q_config)
    /\ (pc \in {"ptq_quantize", "ptq_loop", "ptq_convert"}
            \/ (engine # None /\ engine.kind = "PTQ")) =>
        PtqPopulated(q_config)
    /\ \A i \in CallsOf("QAT.quantize") : QatPopulated(trace[i].arg)
    /\ \A i \in CallsOf("PTQ.quantize") : PtqPopulated(trace[i].arg)

C9_Witness ==
    /\ pc = "ptq_convert"
    /\ engine.kind = "PTQ"
    /\ Cardinality(q_config.type_config) = 4
    /\ Cardinality(q_config.layer_mapping) = 2

\* the flag values Python takes as true
TrueFlags == {PyBool(TRUE), PyInt(1), PyStr("off")}

\* C10: apply_shift builds its transform with an EMA sampler exactly when
\* shift_sampler is "ema" and with None otherwise; apply_smooth with a
\* multi-step sampler exactly when smooth_sampler is "multi_step" and None
\* otherwise, and with a piecewise search exactly when smooth_piecewise_search
\* is true in Python's sense and None otherwise; no value of these arguments
\* makes the pass raise before the transform is built.
C10_SamplerSelection ==
    /\ (pc \in ShiftPcs \/ Ended("apply_shift")) =>
        /\ Len(trace) >= 1
        /\ trace[1].op = "Shift"
        /\ trace[1].arg.sample_function =
            (IF quant_args.shift_sampler = "ema" THEN [kind |-> "EMASampler"] ELSE None)
    /\ (pc \in SmoothPcs \/ Ended("apply_smooth")) =>
        /\ Len(trace) >= 1
        /\ trace[1].op = "Smooth"
        /\ trace[1].arg.sample_function =
            (IF quant_args.smooth_sampler = "multi_step"
             THEN [kind |-> "MultiStepSampler"] ELSE None)
        /\ (trace[1].arg.search_function # None) =
            (quant_args.smooth_piecewise_search \in TrueFlags)
        /\ trace[1].arg.search_function # None =>
            trace[1].arg.search_function.kind = "PieceWiseSearch"

C10_Witness ==
    /\ Returned("apply_smooth")
    /\ quant_args.smooth_sampler = "multistep"
    /\ quant_args.smooth_piecewise_search = PyStr("off")
    /\ trace[1].arg.sample_function = None
    /\ trace[1].arg.search_function.kind = "PieceWiseSearch"

====
